---- MODULE Spec2Model ----
(***************************************************************************)
(* A model of package ssmconfig (src/ssmconfig.go): Process walks a config *)
(* struct breadth-first, binds every settable tagged leaf field to a       *)
(* fully-qualified SSM parameter name, issues one GetParameters request    *)
(* and decodes the returned values into the bound fields with              *)
(* processField.                                                           *)
(*                                                                         *)
(* Strings are sequences of one-character strings, so that Split,          *)
(* TrimSpace and the strconv parsers are computed character by character.  *)
(* A struct value is a sequence of fields; a field reference               *)
(* (reflect.Value of a field) is the path of field indices from the root   *)
(* struct, and the fields' contents live in vals, indexed by path.         *)
(***************************************************************************)
EXTENDS Integers, Sequences, FiniteSets, TLC

VARIABLES
    arg,        \* what was passed as spec: see ArgKinds
    record,     \* the struct spec points to (<<>> when it points to none)
    prefix,     \* Process's prefix argument
    vals,       \* path -> current content of the leaf field at that path
    vals0,      \* vals as it was when Process was called
    pc,         \* Process's position: start, walk, fetch, fill, done
    queue,      \* the traversal queue of queueObjects
    infos,      \* fully-qualified name -> field reference
    requests,   \* the GetParametersInputs the store has received
    out,        \* what the store answered: [err, params]
    idx,        \* position of the fill loop in out.params
    ret         \* Process's return value (an error, NoErr for nil)

vars == <<arg, record, prefix, vals, vals0, pc, queue, infos, requests, out, idx, ret>>

----------------------------------------------------------------------------
(* Bounds *)

\* total number of fields, over all nesting levels, of the records of SpecWalk
MaxNodes == 3
\* total number of fields of the records of Spec
SmallNodes == 2
\* number of parameters in one store answer (Spec)
MaxParams == 2
\* length of the exhaustively enumerated raw strings (SpecDecode)
MaxLen == 3
\* number of comma-joined sample segments in the longer raw strings (SpecDecode)
MaxSegs == 2

----------------------------------------------------------------------------
(* Strings *)

RECURSIVE Strings(_, _)
\* every string over alphabet of length at most n
Strings(alphabet, n) ==
    IF n = 0 THEN {<<>>}
    ELSE LET shorter == Strings(alphabet, n - 1)
         IN  shorter \cup {Append(s, c) : s \in {t \in shorter : Len(t) = n - 1}, c \in alphabet}

RECURSIVE SplitFrom(_, _, _, _)
SplitFrom(s, sep, i, cur) ==
    IF i > Len(s) THEN <<cur>>
    ELSE IF s[i] = sep THEN <<cur>> \o SplitFrom(s, sep, i + 1, <<>>)
    ELSE SplitFrom(s, sep, i + 1, Append(cur, s[i]))

\* strings.Split(s, sep) for a one-character sep
Split(s, sep) == SplitFrom(s, sep, 1, <<>>)

IsSpace(c) == c = " "

RECURSIVE TrimLeft(_)
TrimLeft(s) == IF s # <<>> /\ IsSpace(Head(s)) THEN TrimLeft(Tail(s)) ELSE s

RECURSIVE TrimRight(_)
TrimRight(s) ==
    IF s # <<>> /\ IsSpace(s[Len(s)]) THEN TrimRight(SubSeq(s, 1, Len(s) - 1)) ELSE s

\* mutant of TrimSpace: nothing is trimmed
TrimSpaceNothing(s) == s

\* strings.TrimSpace
TrimSpace(s) == TrimRight(TrimLeft(s))

----------------------------------------------------------------------------
(* Errors: every error value is a record of the same shape *)

NoErr == [kind |-> "nil", msg |-> "", arg |-> <<>>]
ErrNotPointer == [kind |-> "spec", msg |-> "spec must be non-nil pointer", arg |-> <<>>]
ErrNotStruct == [kind |-> "spec", msg |-> "spec must be a struct type", arg |-> <<>>]
StoreErr(m) == [kind |-> "store", msg |-> m, arg |-> <<>>]
\* a *strconv.NumError, or fmt.Errorf("invalid map item: %q", pair)
DecodeErr(m, s) == [kind |-> "decode", msg |-> m, arg |-> s]

----------------------------------------------------------------------------
(* Field types (reflect.Type) and their values *)

String == [k |-> "string"]
Int16 == [k |-> "int", bits |-> 16]
Uint8 == [k |-> "uint", bits |-> 8]
SliceOf(t) == [k |-> "slice", elem |-> t]
MapOf(kt, vt) == [k |-> "map", key |-> kt, elem |-> vt]
\* a kind processField has no case for (pointer, interface, chan, func ...)
Ptr == [k |-> "ptr"]
Struct == [k |-> "struct"]

EmptyMap == [x \in {} |-> 0]
Opaque == [opaque |-> TRUE]

\* the zero value of a type
Zero(typ) ==
    CASE typ.k = "string" -> <<>>
      [] typ.k \in {"int", "uint"} -> 0
      [] typ.k = "slice" -> [nil |-> TRUE, elems |-> <<>>]
      [] typ.k = "map" -> [nil |-> TRUE, entries |-> EmptyMap]
      [] OTHER -> Opaque

\* a value of the type that no decoding of the modelled raw strings yields
Preset(typ) ==
    CASE typ.k = "string" -> <<"o", "l", "d">>
      [] typ.k \in {"int", "uint"} -> 7
      [] typ.k = "slice" -> [nil |-> FALSE, elems |-> <<Zero(typ.elem), Zero(typ.elem), Zero(typ.elem), Zero(typ.elem)>>]
      [] typ.k = "map" -> [nil |-> FALSE, entries |-> (<<"o">> :> Zero(typ.elem))]
      [] OTHER -> Opaque

----------------------------------------------------------------------------
(* strconv *)

\* The decimal digits of the raw strings.  "0", "_" and letters other than
\* "a" are not in the alphabet of the modelled raw strings, so the base
\* prefixes and underscores that base 0 accepts cannot occur.
DigitVal == [c \in {"1", "2", "3", "4", "5", "6", "7", "8", "9"} |->
    CASE c = "1" -> 1 [] c = "2" -> 2 [] c = "3" -> 3 [] c = "4" -> 4 [] c = "5" -> 5
      [] c = "6" -> 6 [] c = "7" -> 7 [] c = "8" -> 8 [] c = "9" -> 9]

IsDigits(s) == s # <<>> /\ \A i \in 1..Len(s) : s[i] \in DOMAIN DigitVal

RECURSIVE DecVal(_)
DecVal(s) == IF s = <<>> THEN 0 ELSE 10 * DecVal(SubSeq(s, 1, Len(s) - 1)) + DigitVal[s[Len(s)]]

\* strconv.ParseUint(s, 0, bits): no sign is accepted
ParseUint(s, bits) ==
    IF ~IsDigits(s) THEN [err |-> DecodeErr("invalid syntax", s), n |-> 0]
    ELSE IF DecVal(s) > 2^bits - 1 THEN [err |-> DecodeErr("value out of range", s), n |-> 2^bits - 1]
    ELSE [err |-> NoErr, n |-> DecVal(s)]

\* strconv.ParseInt(s, 0, bits): an optional sign, then as ParseUint
ParseInt(s, bits) ==
    LET neg == s # <<>> /\ s[1] = "-"
        body == IF s # <<>> /\ s[1] \in {"+", "-"} THEN Tail(s) ELSE s
    IN  IF ~IsDigits(body) THEN [err |-> DecodeErr("invalid syntax", s), n |-> 0]
        ELSE IF ~neg /\ DecVal(body) > 2^(bits - 1) - 1
             THEN [err |-> DecodeErr("value out of range", s), n |-> 2^(bits - 1) - 1]
        ELSE IF neg /\ DecVal(body) > 2^(bits - 1)
             THEN [err |-> DecodeErr("value out of range", s), n |-> -(2^(bits - 1))]
        ELSE [err |-> NoErr, n |-> IF neg THEN -DecVal(body) ELSE DecVal(body)]

----------------------------------------------------------------------------
(* processField *)

\* processField's outcome: the error it returns, whether it assigned the
\* field, and the value it assigned
Assigned(v) == [err |-> NoErr, set |-> TRUE, val |-> v]
Failed(e) == [err |-> e, set |-> FALSE, val |-> Opaque]
Ignored == [err |-> NoErr, set |-> FALSE, val |-> Opaque]

Min(S) == CHOOSE x \in S : \A y \in S : x <= y

\* mutant of SetMapIndex: a key already present keeps its value
SetMapIndexKeepFirst(mp, k, v) == [x \in DOMAIN mp \cup {k} |-> IF x \in DOMAIN mp THEN mp[x] ELSE v]

\* mp.SetMapIndex(k, v)
SetMapIndex(mp, k, v) == [x \in DOMAIN mp \cup {k} |-> IF x = k THEN v ELSE mp[x]]

RECURSIVE processField(_, _)
RECURSIVE fillMap(_, _, _, _)

\* the loop over pairs of the reflect.Map case, from pair i on, mp built so far
fillMap(pairs, i, typ, mp) ==
    IF i > Len(pairs) THEN Assigned([nil |-> FALSE, entries |-> mp])
    ELSE LET kvpair == Split(pairs[i], ":")
         IN  IF Len(kvpair) # 2 THEN Failed(DecodeErr("invalid map item", pairs[i]))
             ELSE LET k == processField(kvpair[1], typ.key)
                  IN  IF k.err # NoErr THEN Failed(k.err)
                      ELSE LET v == processField(kvpair[2], typ.elem)
                           IN  IF v.err # NoErr THEN Failed(v.err)
                               ELSE fillMap(pairs, i + 1, typ,
                                        SetMapIndex(mp,
                                            IF k.set THEN k.val ELSE Zero(typ.key),
                                            IF v.set THEN v.val ELSE Zero(typ.elem)))

processField(value, typ) ==
    CASE typ.k = "string" -> Assigned(value)
      [] typ.k = "int" ->
            LET p == ParseInt(value, typ.bits)
            IN  IF p.err # NoErr THEN Failed(p.err) ELSE Assigned(p.n)
      [] typ.k = "uint" ->
            LET p == ParseUint(value, typ.bits)
            IN  IF p.err # NoErr THEN Failed(p.err) ELSE Assigned(p.n)
      [] typ.k = "slice" ->
            IF typ.elem.k = "uint" /\ typ.elem.bits = 8
            THEN Assigned([nil |-> FALSE, elems |-> value])
            ELSE IF Len(TrimSpace(value)) # 0
            THEN LET parts == Split(value, ",")
                     rs == [i \in 1..Len(parts) |-> processField(parts[i], typ.elem)]
                     bad == {i \in 1..Len(parts) : rs[i].err # NoErr}
                 IN  IF bad # {} THEN Failed(rs[Min(bad)].err)
                     ELSE Assigned([nil |-> FALSE, elems |->
                            [i \in 1..Len(parts) |-> IF rs[i].set THEN rs[i].val ELSE Zero(typ.elem)]])
            ELSE Assigned([nil |-> FALSE, elems |-> <<>>])
      [] typ.k = "map" ->
            IF Len(TrimSpace(value)) # 0
            THEN fillMap(Split(value, ","), 1, typ, EmptyMap)
            ELSE Assigned([nil |-> FALSE, entries |-> EmptyMap])
      [] OTHER -> Ignored

----------------------------------------------------------------------------
(* The config struct *)

\* the ssmparam tags of the modelled structs; <<>> is a field without the tag
Tags == {<<>>, <<"a">>, <<"b">>}

\* A struct is a sequence of fields.  canSet is reflect.Value.CanSet of the
\* field as Process obtains it (from an addressable struct reached through
\* settable fields only): whether the field is exported.
\* The structs of n fields over all nesting levels are enumerated by numbering
\* the fields in declaration (pre-)order: parent[i] is the number of the struct
\* field that declares field i, 0 for the top-level struct, and label[i] is
\* field i's tag, settability and type.
AncestorsOrSelf(parent, i) ==
    LET up[j \in 0..i] == IF j = 0 THEN {0} ELSE {j} \cup up[parent[j]]
    IN  up[i]

Nestings(n) ==
    {parent \in [1..n -> 0..n] :
        \A i \in 1..n : /\ parent[i] < i
                        /\ i > 1 => parent[i] \in AncestorsOrSelf(parent, i - 1)}

Labels(leafTypes) == [tag : Tags, canSet : BOOLEAN, typ : leafTypes \cup {Struct}]

\* a field that declares fields is a struct
WellTyped(n, parent, label) ==
    \A i \in 1..n : (\E j \in 1..n : parent[j] = i) => label[i].typ = Struct

RECURSIVE Ascending(_)
Ascending(S) == IF S = {} THEN <<>> ELSE <<Min(S)>> \o Ascending(S \ {Min(S)})

RECURSIVE StructOf(_, _, _, _)
\* the struct made of the fields that parent declares in field j
StructOf(n, parent, label, j) ==
    LET kids == Ascending({i \in 1..n : parent[i] = j})
    IN  [x \in 1..Len(kids) |->
            [tag |-> label[kids[x]].tag, canSet |-> label[kids[x]].canSet,
             typ |-> label[kids[x]].typ, sub |-> StructOf(n, parent, label, kids[x])]]

RECURSIVE FieldAt(_, _)
\* the field a path of field indices leads to
FieldAt(rec, path) ==
    IF Len(path) = 1 THEN rec[path[1]] ELSE FieldAt(rec[path[1]].sub, Tail(path))

RECURSIVE PathsOf(_, _)
\* the paths of all fields of rec, each prepended with base
PathsOf(rec, base) ==
    UNION {{Append(base, i)} \cup PathsOf(rec[i].sub, Append(base, i)) : i \in 1..Len(rec)}

Paths(rec) == PathsOf(rec, <<>>)
LeafPaths(rec) == {p \in Paths(rec) : FieldAt(rec, p).typ.k # "struct"}

----------------------------------------------------------------------------
(* Process *)

\* what a caller can pass as spec
ArgKinds == {"nil", "value", "nilptr", "ptr_int", "ptr_struct"}

\* lines 28-39: the error the validation of spec returns
specError(a) ==
    IF a \in {"nil", "value"} THEN ErrNotPointer      \* Kind() is Invalid, or not Ptr
    ELSE IF a \in {"nilptr", "ptr_int"} THEN ErrNotStruct  \* Elem().Kind() is Invalid, or Int
    ELSE NoErr

\* lines 43-53 and 78-89: one queueObject per field of the struct at path
fieldsOf(rec, path, pfx) ==
    LET s == IF path = <<>> THEN rec ELSE FieldAt(rec, path).sub
    IN  [i \in 1..Len(s) |-> [field |-> Append(path, i), prefix |-> pfx]]

\* line 67: q.field.CanSet()
CanSet(rec, q) == FieldAt(rec, q.field).canSet

\* mutant of walkStep: the CanSet test is missing
walkStepNoCanSet(rec, qu, inf) ==
    LET q == Head(qu)
        f == FieldAt(rec, q.field)
        ssmparam == f.tag
    IN  IF f.typ.k = "struct"
        THEN [queue |-> Tail(qu) \o fieldsOf(rec, q.field, q.prefix \o ssmparam), infos |-> inf]
        ELSE IF ssmparam = <<>> THEN [queue |-> Tail(qu), infos |-> inf]
        ELSE [queue |-> Tail(qu), infos |-> SetMapIndex(inf, q.prefix \o ssmparam, q.field)]

\* mutant of walkStep: a sub struct's fields are visited before the rest of the
\* queue (depth-first)
walkStepDepthFirst(rec, qu, inf) ==
    LET q == Head(qu)
        f == FieldAt(rec, q.field)
        ssmparam == f.tag
    IN  IF ~CanSet(rec, q) THEN [queue |-> Tail(qu), infos |-> inf]
        ELSE IF f.typ.k = "struct"
        THEN [queue |-> fieldsOf(rec, q.field, q.prefix \o ssmparam) \o Tail(qu), infos |-> inf]
        ELSE IF ssmparam = <<>> THEN [queue |-> Tail(qu), infos |-> inf]
        ELSE [queue |-> Tail(qu), infos |-> SetMapIndex(inf, q.prefix \o ssmparam, q.field)]

\* lines 63-97: one iteration of the traversal loop on a non-empty queue
walkStep(rec, qu, inf) ==
    LET q == Head(qu)
        f == FieldAt(rec, q.field)
        ssmparam == f.tag
    IN  IF ~CanSet(rec, q) THEN [queue |-> Tail(qu), infos |-> inf]
        ELSE IF f.typ.k = "struct"
        THEN [queue |-> Tail(qu) \o fieldsOf(rec, q.field, q.prefix \o ssmparam), infos |-> inf]
        ELSE IF ssmparam = <<>> THEN [queue |-> Tail(qu), infos |-> inf]
        ELSE [queue |-> Tail(qu), infos |-> SetMapIndex(inf, q.prefix \o ssmparam, q.field)]

\* the sequences that list every element of S once
Perms(S) == {p \in [1..Cardinality(S) -> S] : \A x \in S : \E i \in DOMAIN p : p[i] = x}

\* lines 101-106: the names of the request, in the map's iteration order
namesOf(inf) == Perms(DOMAIN inf)

\* mutant of requestOf: decryption is not asked for
requestNoDecryption(names) == [Names |-> names, WithDecryption |-> FALSE]

\* lines 109-112
requestOf(names) == [Names |-> names, WithDecryption |-> TRUE]

\* mutant of fillStep: a value that does not decode is skipped
fillStepSkipUndecodable(rec, inf, vs, param) ==
    IF param.Name \notin DOMAIN inf THEN [err |-> NoErr, vals |-> vs]
    ELSE LET f == inf[param.Name]
             r == processField(param.Value, FieldAt(rec, f).typ)
         IN  [err |-> NoErr, vals |-> IF r.set THEN [vs EXCEPT ![f] = r.val] ELSE vs]

\* mutant of fillStep: a name that was not asked for is an error
fillStepUnknownFails(rec, inf, vs, param) ==
    IF param.Name \notin DOMAIN inf
    THEN [err |-> DecodeErr("unknown parameter", param.Name), vals |-> vs]
    ELSE LET f == inf[param.Name]
             r == processField(param.Value, FieldAt(rec, f).typ)
         IN  IF r.err # NoErr THEN [err |-> r.err, vals |-> vs]
             ELSE [err |-> NoErr, vals |-> IF r.set THEN [vs EXCEPT ![f] = r.val] ELSE vs]

\* mutant of fillStep: a bound field whose name differs from the parameter's
\* is reset to its zero value
fillStepResetOthers(rec, inf, vs, param) ==
    IF param.Name \notin DOMAIN inf THEN [err |-> NoErr, vals |-> vs]
    ELSE LET f == inf[param.Name]
             r == processField(param.Value, FieldAt(rec, f).typ)
         IN  IF r.err # NoErr THEN [err |-> r.err, vals |-> vs]
             ELSE [err |-> NoErr,
                   vals |-> [p \in DOMAIN vs |->
                                IF p = f /\ r.set THEN r.val
                                ELSE IF \E k \in DOMAIN inf : inf[k] = p
                                     THEN Zero(FieldAt(rec, p).typ) ELSE vs[p]]]

\* lines 119-125: one iteration of the fill loop on parameter param
fillStep(rec, inf, vs, param) ==
    IF param.Name \notin DOMAIN inf THEN [err |-> NoErr, vals |-> vs]
    ELSE LET f == inf[param.Name]
             r == processField(param.Value, FieldAt(rec, f).typ)
         IN  IF r.err # NoErr THEN [err |-> r.err, vals |-> vs]
             ELSE [err |-> NoErr, vals |-> IF r.set THEN [vs EXCEPT ![f] = r.val] ELSE vs]

\* mutant of afterFetch: the store's error is dropped
afterFetchDropsError(answer) == [ret |-> NoErr, pc |-> "fill", idx |-> 1]

\* lines 113-117: return the store's error, or enter the fill loop
afterFetch(answer) ==
    IF answer.err # NoErr THEN [ret |-> answer.err, pc |-> "done", idx |-> 0]
    ELSE [ret |-> NoErr, pc |-> "fill", idx |-> 1]

----------------------------------------------------------------------------
(* The store *)

StoreMsgs == {"test", "denied"}
\* a parameter name no field of the modelled structs is bound to
Unknown == <<"z">>

RECURSIVE SeqsUpTo(_, _)
SeqsUpTo(S, n) ==
    IF n = 0 THEN {<<>>}
    ELSE LET shorter == SeqsUpTo(S, n - 1)
         IN  shorter \cup {Append(s, x) : s \in {t \in shorter : Len(t) = n - 1}, x \in S}

\* what GetParameters may answer to a request for names: an error, or up to
\* n parameters, in any order, asked for or not, with values from raws
Answers(names, n, raws) ==
    {[err |-> StoreErr(m), params |-> <<>>] : m \in StoreMsgs}
    \cup {[err |-> NoErr, params |-> ps] :
            ps \in SeqsUpTo([Name : names \cup {Unknown}, Value : raws], n)}

----------------------------------------------------------------------------
(* Actions *)

Prefixes == {<<>>, <<"p">>}

\* spec points to a struct of at most maxNodes fields, or is no such pointer
InitOver(maxNodes, leafTypes, prefixes) ==
    /\ arg \in ArgKinds
    /\ IF arg = "ptr_struct"
       THEN \E n \in 0..maxNodes : \E parent \in Nestings(n) :
                \E label \in [1..n -> Labels(leafTypes)] :
                    /\ WellTyped(n, parent, label)
                    /\ record = StructOf(n, parent, label, 0)
       ELSE record = <<>>
    /\ prefix \in prefixes
    /\ vals \in IF arg = "ptr_int" THEN {(<<>> :> 0), (<<>> :> 7)}
                ELSE {[p \in LeafPaths(record) |-> Zero(FieldAt(record, p).typ)],
                      [p \in LeafPaths(record) |-> Preset(FieldAt(record, p).typ)]}
    /\ vals0 = vals
    /\ pc = "start"
    /\ queue = <<>>
    /\ infos = EmptyMap
    /\ requests = <<>>
    /\ out = [err |-> NoErr, params |-> <<>>]
    /\ idx = 0
    /\ ret = NoErr

\* lines 28-55
Validate ==
    /\ pc = "start"
    /\ IF specError(arg) # NoErr
       THEN /\ ret' = specError(arg)
            /\ pc' = "done"
            /\ UNCHANGED queue
       ELSE /\ queue' = fieldsOf(record, <<>>, prefix)
            /\ pc' = "walk"
            /\ UNCHANGED ret
    /\ UNCHANGED <<arg, record, prefix, vals, vals0, infos, requests, out, idx>>

\* lines 56-98
Walk ==
    /\ pc = "walk"
    /\ IF queue = <<>>
       THEN /\ pc' = "fetch"
            /\ UNCHANGED <<queue, infos>>
       ELSE LET w == walkStep(record, queue, infos)
            IN  /\ queue' = w.queue
                /\ infos' = w.infos
                /\ UNCHANGED pc
    /\ UNCHANGED <<arg, record, prefix, vals, vals0, requests, out, idx, ret>>

\* lines 100-116
GetParameters(n, raws) ==
    /\ pc = "fetch"
    /\ \E names \in namesOf(infos) :
        /\ requests' = Append(requests, requestOf(names))
        /\ \E answer \in Answers(DOMAIN infos, n, raws) :
            /\ out' = answer
            /\ ret' = afterFetch(answer).ret
            /\ pc' = afterFetch(answer).pc
            /\ idx' = afterFetch(answer).idx
    /\ UNCHANGED <<arg, record, prefix, vals, vals0, queue, infos>>

\* lines 117-127
Fill ==
    /\ pc = "fill"
    /\ IF idx > Len(out.params)
       THEN /\ ret' = NoErr
            /\ pc' = "done"
            /\ UNCHANGED <<vals, idx>>
       ELSE LET r == fillStep(record, infos, vals, out.params[idx])
            IN  IF r.err # NoErr
                THEN /\ ret' = r.err
                     /\ pc' = "done"
                     /\ UNCHANGED <<vals, idx>>
                ELSE /\ vals' = r.vals
                     /\ idx' = idx + 1
                     /\ UNCHANGED <<ret, pc>>
    /\ UNCHANGED <<arg, record, prefix, vals0, queue, infos, requests, out>>

----------------------------------------------------------------------------
(* Specifications *)

\* Spec: small structs of slice fields, answers of several parameters whose
\* values decode, fail to decode, or fail after a first element decoded
SpecRaws == {<<"1">>, <<"1", ",", "a">>}
Init == InitOver(SmallNodes, {SliceOf(Int16)}, {<<"p">>})
Next == Validate \/ Walk \/ GetParameters(MaxParams, SpecRaws) \/ Fill
Spec == Init /\ [][Next]_vars

\* SpecWalk: larger structs, nested deeper, answers of at most one parameter
WalkRaws == {<<"1">>}
InitWalk == InitOver(MaxNodes, {Int16}, Prefixes)
NextWalk == Validate \/ Walk \/ GetParameters(1, WalkRaws) \/ Fill
SpecWalk == InitWalk /\ [][NextWalk]_vars

\* SpecDecode: structs of one field of each type processField distinguishes,
\* answers of at most one parameter whose value is any string over Alphabet of
\* at most MaxLen characters, or up to MaxSegs of SampleSegs joined by commas
Alphabet == {"a", "1", "-", ",", ":", " "}
SampleSegs == {<<"a", ":", "1">>, <<"a", ":", "1", "1">>, <<"1", ":", "1">>, <<"a">>,
               <<"a", ":", "a">>, <<"a", ":", "1", ":", "1">>, <<"1", "1", "1", "1">>}

RECURSIVE Join(_)
\* strings.Join(segs, ",")
Join(segs) ==
    IF Len(segs) = 0 THEN <<>>
    ELSE IF Len(segs) = 1 THEN segs[1]
    ELSE segs[1] \o <<",">> \o Join(Tail(segs))

DecodeRaws == Strings(Alphabet, MaxLen) \cup {Join(segs) : segs \in SeqsUpTo(SampleSegs, MaxSegs)}
DecodeTypes == {String, Int16, Uint8, SliceOf(Int16), SliceOf(Uint8), SliceOf(String),
                MapOf(String, Int16), Ptr}
InitDecode == InitOver(1, DecodeTypes, {<<>>})
NextDecode == Validate \/ Walk \/ GetParameters(1, DecodeRaws) \/ Fill
SpecDecode == InitDecode /\ [][NextDecode]_vars

----------------------------------------------------------------------------
(* What the claims speak of, stated on the struct itself *)

\* the tags of the fields along a path, outermost first, concatenated
RECURSIVE TagsAlong(_, _)
TagsAlong(rec, path) ==
    IF path = <<>> THEN <<>>
    ELSE TagsAlong(rec, SubSeq(path, 1, Len(path) - 1)) \o FieldAt(rec, path).tag

\* the fully-qualified parameter name of the field at path
FQName(path) == prefix \o TagsAlong(record, path)

\* the field and all the sub-record fields it is nested in are writable
Writable(path) == \A i \in 1..Len(path) : FieldAt(record, SubSeq(path, 1, i)).canSet

\* the writable, tagged, non-struct fields under writable ancestors
BoundPaths == {p \in LeafPaths(record) : Writable(p) /\ FieldAt(record, p).tag # <<>>}

Walked == arg = "ptr_struct" /\ pc \in {"fetch", "fill", "done"}
Fetched == arg = "ptr_struct" /\ pc \in {"fill", "done"}

\* C1: once the traversal is over, the keys of the name->field mapping are
\* exactly the fully-qualified names (prefix, ancestors' tags outermost first,
\* own tag) of the writable tagged non-struct fields under writable ancestors,
\* and each key maps to such a field of that name.
C1_MappingKeys ==
    Walked =>
        /\ DOMAIN infos = {FQName(p) : p \in BoundPaths}
        /\ \A k \in DOMAIN infos : infos[k] \in BoundPaths /\ FQName(infos[k]) = k

\* prefix "p", a writable sub-record tagged "a" holding a writable field
\* tagged "b", beside a field that is not writable
C1_Witness ==
    /\ Walked
    /\ prefix = <<"p">>
    /\ <<"p", "a", "b">> \in DOMAIN infos
    /\ Len(infos[<<"p", "a", "b">>]) = 2
    /\ FieldAt(record, <<infos[<<"p", "a", "b">>][1]>>).tag = <<"a">>
    /\ \E q \in LeafPaths(record) : ~Writable(q) /\ FieldAt(record, q).tag # <<>>

\* C2: a call with a valid spec sends no request before the traversal is over
\* and exactly one after it, whatever the store answers; the request names
\* every key of the mapping exactly once and nothing else, WithDecryption true.
C2_OneRequest ==
    arg = "ptr_struct" =>
        IF pc \in {"fill", "done"}
        THEN /\ Len(requests) = 1
             /\ requests[1].WithDecryption = TRUE
             /\ Len(requests[1].Names) = Cardinality(DOMAIN infos)
             /\ \A i \in 1..Len(requests[1].Names) : requests[1].Names[i] \in DOMAIN infos
             /\ \A k \in DOMAIN infos :
                    Cardinality({i \in 1..Len(requests[1].Names) : requests[1].Names[i] = k}) = 1
        ELSE requests = <<>>

\* the call ended on a decode error after a request for two names
C2_Witness ==
    /\ pc = "done"
    /\ ret.kind = "decode"
    /\ Len(requests) = 1
    /\ Len(requests[1].Names) = 2

\* C3: a nil spec (untyped nil or nil pointer) and a non-pointer spec are
\* rejected with "spec must be non-nil pointer", a pointer to a non-struct
\* with "spec must be a struct type"; no request is sent, nothing is mutated.
C3_RejectsBadSpec ==
    (pc = "done" /\ arg # "ptr_struct") =>
        /\ ret = IF arg \in {"nil", "nilptr", "value"} THEN ErrNotPointer ELSE ErrNotStruct
        /\ requests = <<>>
        /\ vals = vals0

\* C4: when GetParameters fails, Process returns that very error, the fill
\* loop never runs and every field holds the value it had before the call.
C4_StoreError ==
    out.err # NoErr =>
        /\ pc = "done"
        /\ ret = out.err
        /\ idx = 0
        /\ vals = vals0

\* the store failed a request for a struct with a bound field holding a value
C4_Witness ==
    /\ out.err = StoreErr("test")
    /\ pc = "done"
    /\ \E p \in BoundPaths : vals0[p] = Preset(FieldAt(record, p).typ)

\* the store's answer, entry by entry
Params == out.params
IsBound(i) == Params[i].Name \in DOMAIN infos
FieldOf(i) == infos[Params[i].Name]
\* what decoding entry i's value into its mapped field gives
Decoded(i) == processField(Params[i].Value, FieldAt(record, FieldOf(i)).typ)
Undecodable == {i \in 1..Len(Params) : IsBound(i) /\ Decoded(i).err # NoErr}
\* the first entry whose value cannot be decoded, Len(Params) + 1 if none
FirstBad == IF Undecodable = {} THEN Len(Params) + 1 ELSE Min(Undecodable)
DistinctNames == \A i, j \in 1..Len(Params) : i # j => Params[i].Name # Params[j].Name
Answered == arg = "ptr_struct" /\ pc = "done" /\ out.err = NoErr

\* C5: when the store's entries have distinct names and entry k is the first
\* that cannot be decoded, Process returns that decode error, the fields of
\* the entries before k hold their decoded values, and the fields of entry k
\* and of the later entries hold what they held before the call.
C5_FailFastNoRollback ==
    (Answered /\ DistinctNames /\ FirstBad <= Len(Params)) =>
        /\ ret = Decoded(FirstBad).err
        /\ \A i \in 1..Len(Params) : IsBound(i) =>
            vals[FieldOf(i)] = IF i < FirstBad THEN Decoded(i).val ELSE vals0[FieldOf(i)]

\* the second of two entries fails after its first element decoded, the first
\* entry's field was assigned
C5_Witness ==
    /\ Answered /\ DistinctNames
    /\ Len(Params) = 2 /\ IsBound(1) /\ IsBound(2)
    /\ FirstBad = 2
    /\ Params[2].Value = <<"1", ",", "a">>
    /\ vals0[FieldOf(2)] = Preset(SliceOf(Int16))
    /\ vals[FieldOf(1)] = [nil |-> FALSE, elems |-> <<1>>]
    /\ ret.kind = "decode"

ReturnedNames == {Params[i].Name : i \in 1..Len(Params)}

\* C6: a field whose value changed is a bound field whose fully-qualified name
\* the store returned: bound fields the store did not return, unbound fields
\* and non-writable fields keep their values; and when every returned value
\* decodes, the call succeeds although bound names are missing.
C6_OnlyReturnedBoundFields ==
    arg = "ptr_struct" =>
        /\ \A p \in DOMAIN vals :
            vals[p] # vals0[p] => p \in BoundPaths /\ FQName(p) \in ReturnedNames
        /\ (Answered /\ Undecodable = {}) => ret = NoErr

\* a successful call that assigned one bound field and left another, which the
\* store did not return, at its value
C6_Witness ==
    /\ Answered /\ ret = NoErr
    /\ \E p \in BoundPaths : /\ FQName(p) \notin ReturnedNames
                             /\ vals[p] = Preset(FieldAt(record, p).typ)
    /\ \E q \in BoundPaths : vals[q] # vals0[q]

\* C7: entries whose name is not a key of the mapping cause no error, mutate
\* no field and do not stop the other entries: the call's error is that of the
\* first undecodable bound entry (none if there is none), every bound entry
\* before it is decoded into its field, and no other field changes.
C7_UnknownNamesIgnored ==
    (Answered /\ \E i \in 1..Len(Params) : ~IsBound(i)) =>
        /\ ret = IF FirstBad <= Len(Params) THEN Decoded(FirstBad).err ELSE NoErr
        /\ \A i \in 1..(FirstBad - 1) :
            (IsBound(i) /\ \A j \in (i + 1)..(FirstBad - 1) : Params[j].Name # Params[i].Name)
                => vals[FieldOf(i)] = Decoded(i).val
        /\ \A p \in DOMAIN vals :
            (\A i \in 1..(FirstBad - 1) : IsBound(i) => FieldOf(i) # p) => vals[p] = vals0[p]

\* an unknown name came first, the bound entry after it was decoded
C7_Witness ==
    /\ Answered /\ ret = NoErr
    /\ Len(Params) = 2
    /\ Params[1].Name = Unknown
    /\ IsBound(2)
    /\ vals0[FieldOf(2)] = Preset(SliceOf(Int16))
    /\ vals[FieldOf(2)] = [nil |-> FALSE, elems |-> <<1>>]

\* every character of s is a space: s is empty or whitespace only
IsBlank(s) == \A i \in 1..Len(s) : s[i] = " "
\* the store answered one entry, for a bound field of kind k
OneEntryFor(k) ==
    Answered /\ Len(Params) = 1 /\ IsBound(1) /\ FieldAt(record, FieldOf(1)).typ.k = k
IsByte(typ) == typ = Uint8
EmptySlice == [nil |-> FALSE, elems |-> <<>>]

\* C8 as stated: whatever the element type, byte included, an empty or
\* whitespace-only raw string decodes without error to an empty non-nil slice.
C8_AsStated ==
    (OneEntryFor("slice") /\ IsBlank(Params[1].Value)) =>
        /\ ret = NoErr
        /\ vals[FieldOf(1)] = EmptySlice

\* C8 amended: so it is for every element type but byte; a byte slice is
\* assigned the raw string's bytes as they are, whitespace included.
C8_BlankSlice ==
    (OneEntryFor("slice") /\ IsBlank(Params[1].Value)) =>
        /\ ret = NoErr
        /\ vals[FieldOf(1)] =
             IF IsByte(FieldAt(record, FieldOf(1)).typ.elem)
             THEN [nil |-> FALSE, elems |-> Params[1].Value]
             ELSE EmptySlice

\* a byte slice that held four elements was given two spaces and holds them
C8_Witness ==
    /\ OneEntryFor("slice")
    /\ FieldAt(record, FieldOf(1)).typ = SliceOf(Uint8)
    /\ Params[1].Value = <<" ", " ">>
    /\ vals0[FieldOf(1)] = Preset(SliceOf(Uint8))
    /\ vals[FieldOf(1)] = [nil |-> FALSE, elems |-> <<" ", " ">>]

\* the raw string of the one entry, its comma-separated pairs, a pair's parts
MapRaw == Params[1].Value
Pairs == Split(MapRaw, ",")
Colons(s) == Cardinality({j \in 1..Len(s) : s[j] = ":"})
KeyOf(i) == Split(Pairs[i], ":")[1]
ValueOf(i) == ParseInt(Split(Pairs[i], ":")[2], 16)
\* pair i splits into exactly two parts
SplitsInTwo(i) == Colons(Pairs[i]) = 1
BadPairs == {i \in 1..Len(Pairs) : ~SplitsInTwo(i) \/ ValueOf(i).err # NoErr}
\* the mapping of every key to the value of the last pair with that key
LastWins ==
    [k \in {KeyOf(i) : i \in 1..Len(Pairs)} |->
        LET last == CHOOSE i \in 1..Len(Pairs) :
                        KeyOf(i) = k /\ \A j \in 1..Len(Pairs) : KeyOf(j) = k => j <= i
        IN  ValueOf(last).n]

\* C9 as stated, for the raw strings whose well-split pairs all decode: a pair
\* that does not split into exactly two parts makes decoding fail and leaves
\* the field, otherwise the field is assigned the last-wins mapping.
C9_AsStated ==
    (OneEntryFor("map") /\ \A i \in 1..Len(Pairs) : SplitsInTwo(i) => ValueOf(i).err = NoErr) =>
        IF \E i \in 1..Len(Pairs) : ~SplitsInTwo(i)
        THEN ret.kind = "decode" /\ vals[FieldOf(1)] = vals0[FieldOf(1)]
        ELSE ret = NoErr /\ vals[FieldOf(1)] = [nil |-> FALSE, entries |-> LastWins]

\* C9 amended: an empty or whitespace-only raw string is not split and assigns
\* the empty mapping; any other is split on "," and each pair on ":", the first
\* pair that does not split into exactly two parts or whose key or value does
\* not decode fails the decoding with its error and leaves the field, and
\* otherwise the field is assigned the last-wins mapping.
C9_MapDecode ==
    OneEntryFor("map") =>
        IF IsBlank(MapRaw)
        THEN ret = NoErr /\ vals[FieldOf(1)] = [nil |-> FALSE, entries |-> EmptyMap]
        ELSE IF BadPairs # {}
        THEN /\ ret = IF SplitsInTwo(Min(BadPairs)) THEN ValueOf(Min(BadPairs)).err
                      ELSE DecodeErr("invalid map item", Pairs[Min(BadPairs)])
             /\ vals[FieldOf(1)] = vals0[FieldOf(1)]
        ELSE ret = NoErr /\ vals[FieldOf(1)] = [nil |-> FALSE, entries |-> LastWins]

\* "a:1,a:11" replaced a mapping by the one entry a -> 11
C9_Witness ==
    /\ OneEntryFor("map")
    /\ MapRaw = <<"a", ":", "1", ",", "a", ":", "1", "1">>
    /\ vals0[FieldOf(1)] = Preset(MapOf(String, Int16))
    /\ vals[FieldOf(1)] = [nil |-> FALSE, entries |-> (<<"a">> :> 11)]

\* breadth-first order: a field of an outer level before any of a deeper
\* level, fields of one level in declaration order
LexLess(p, q) == \E i \in 1..Len(p) : p[i] < q[i] /\ \A j \in 1..(i - 1) : p[j] = q[j]
BfsBefore(p, q) == Len(p) < Len(q) \/ (Len(p) = Len(q) /\ LexLess(p, q))
\* the bound fields that resolve to name n, and the one of them visited last
Group(n) == {p \in BoundPaths : FQName(p) = n}
LastVisited(n) == CHOOSE p \in Group(n) : \A q \in Group(n) \ {p} : BfsBefore(q, p)
Duplicated == {n \in {FQName(p) : p \in BoundPaths} : Cardinality(Group(n)) >= 2}

\* C10: when several bound fields resolve to one name, the mapping keeps the
\* field visited last in breadth-first order, the request holds the name once,
\* and when the store returns the name with the value "1" only that field
\* receives 1, the others keep their values, and no error is raised.
C10_LastWriteWins ==
    Walked => \A n \in Duplicated :
        /\ n \in DOMAIN infos /\ infos[n] = LastVisited(n)
        /\ Fetched =>
            Cardinality({i \in 1..Len(requests[1].Names) : requests[1].Names[i] = n}) = 1
        /\ Answered =>
            /\ ret = NoErr
            /\ \A q \in Group(n) \ {LastVisited(n)} : vals[q] = vals0[q]
            /\ n \in ReturnedNames => vals[LastVisited(n)] = 1

\* a nested field declared before a top-level field of the same name is
\* visited after it and received the value
C10_Witness ==
    /\ Answered
    /\ \E n \in Duplicated : \E q \in Group(n) :
        /\ Len(LastVisited(n)) = 2 /\ Len(q) = 1
        /\ LastVisited(n)[1] < q[1]
        /\ n \in ReturnedNames
        /\ vals[LastVisited(n)] = 1
        /\ vals[q] = 7

====
